---- MODULE Spec2Model ----
(***************************************************************************)
(* Model of roy4222/dc_bot (src/main.py): the model-fallback responder,    *)
(* the weather cache with its retrying fetch, the message enhancer, the    *)
(* message pipeline, the subscriber set, the broadcast cycle and the       *)
(* scheduler loop with its wake-time computation.                          *)
(*                                                                         *)
(* Texts are sequences of one-character (or one-token) strings, so that    *)
(* substring tests, lower(), strip() and f-string concatenation are        *)
(* computed rather than assumed.  An Optional value is a sequence of       *)
(* length 0 (None) or 1.                                                   *)
(***************************************************************************)
EXTENDS Integers, Sequences, FiniteSets, TLC

VARIABLES
  ai_provider,   \* the completion endpoint's behaviour: fallback level -> response
  json_error_propagates, \* build: response.json() raises a plain ValueError (TRUE) or a RequestException subclass (FALSE)
  ai_out,        \* outcome of the last get_ai_response call
  now,           \* the clock, time.time() in seconds
  ticks,         \* number of clock advances so far (bounds the exploration)
  cached_data,   \* WeatherService.cached_data : Optional WeatherData
  cache_time,    \* WeatherService.cache_time  : Optional seconds
  weather_data_ref, \* the store's "weather_data" document : Optional
  subscribers,   \* WeatherService.subscribers: the keys of the dict
  subscribers_ref, \* the store's "weather_subscribers" document
  last_time_mention, \* _last_time_mention of the long-lived MessageHandler instance
  conversation,  \* the store's conversation log: user -> sequence of turns
  task,          \* the coroutines in progress: task id -> frame
  sub_log,       \* history: the last two direct subscribe/unsubscribe calls
  sched_now,     \* scheduler: datetime.now(Asia/Taipei) read at line 373
  sched_target,  \* scheduler: target_time : Optional local datetime
  sched_delay,   \* scheduler: delay : Optional duration
  scheduler_started, \* WeatherScheduler.scheduler_started
  start_calls    \* history: the number of on_ready events counted so far

aiVars == <<ai_provider, json_error_propagates, ai_out>>
clockVars == <<now, ticks>>
cacheVars == <<cached_data, cache_time>>
weatherVars == <<now, ticks, cached_data, cache_time, weather_data_ref>>
subVars == <<subscribers, subscribers_ref>>
schedVars == <<sched_now, sched_target, sched_delay, scheduler_started, start_calls>>
\* What the message, weather and pipeline actions never touch.
passiveVars == <<aiVars, schedVars, sub_log>>

None == <<>>
Some(x) == <<x>>
IsSome(o) == Len(o) = 1
TheVal(o) == o[1]

(***************************************************************************)
(* Texts                                                                   *)
(***************************************************************************)
Whitespace == {" ", "\n"}

RECURSIVE lstrip(_)
lstrip(s) == IF s # <<>> /\ Head(s) \in Whitespace THEN lstrip(Tail(s)) ELSE s

RECURSIVE rstrip(_)
rstrip(s) ==
  IF s # <<>> /\ s[Len(s)] \in Whitespace THEN rstrip(SubSeq(s, 1, Len(s) - 1)) ELSE s

strip(s) == rstrip(lstrip(s))

(***************************************************************************)
(* ModelFallbackResponder: choose_model_based_on_message, get_ai_response  *)
(***************************************************************************)
model_sequence ==
  << "llama-3.2-90b-text-preview", "llama-3.1-70b-versatile",
     "llama-3.2-11b-text-preview", "llama-3.1-8b-instant" >>

\* fallback_level is 0-based in the source; TLA+ sequences are 1-based.
choose_model_based_on_message(fallback_level) ==
  IF 0 <= fallback_level /\ fallback_level < Len(model_sequence)
  THEN model_sequence[fallback_level + 1]
  ELSE model_sequence[Len(model_sequence)]

MaxFallbackLevel == 3

\* The fixed reply of line 499, as one token.
Apology == << "<apology: cannot respond right now>" >>

\* Completion texts the endpoint may return.
Contents == { <<"a">>, <<" ", "a">>, <<"a", "\n">>, <<" ">> }

\* What one requests.post / response.json() can produce:
\*   transport  - requests.post raises a RequestException
\*   nonjson    - the body is not JSON, response.json() raises
\*   nochoices  - a JSON object without the key 'choices'
\*   badchoices - a JSON object with 'choices' but no usable
\*                choices[0].message.content (empty list, missing key, null)
\*   content    - a JSON object with choices[0].message.content = content
Responses ==
  { [transport |-> TRUE, status_code |-> 0, body |-> "none", content |-> <<>>] }
  \cup { [transport |-> FALSE, status_code |-> sc, body |-> b, content |-> <<>>]
           : sc \in {200, 500}, b \in {"badchoices", "nochoices", "nonjson"} }
  \cup { [transport |-> FALSE, status_code |-> sc, body |-> "content", content |-> c]
           : sc \in {200, 500}, c \in Contents }

Levels == 0 .. MaxFallbackLevel

\* One pass of the try block (lines 478-496) on response r.
\* step: "success" | "advance" (fallback_level += 1) | "raise" (exception leaves the function)
ai_try(r, jsonPropagates) ==
  IF r.transport THEN [step |-> "advance", reply_msg |-> <<>>]
  ELSE IF r.body = "nonjson"
       THEN [step |-> IF jsonPropagates THEN "raise" ELSE "advance", reply_msg |-> <<>>]
  ELSE IF r.status_code = 200 /\ r.body \in {"badchoices", "content"}
       THEN IF r.body = "content"
            THEN [step |-> "success", reply_msg |-> strip(r.content)]
            ELSE [step |-> "raise", reply_msg |-> <<>>]
  ELSE [step |-> "advance", reply_msg |-> <<>>]

\* The while loop of lines 449-496 from fallback_level on, calls = models called so far.
\* (The persona file read at lines 457-458 is taken to be readable.)
RECURSIVE ai_loop(_, _, _, _)
ai_loop(provider, jsonPropagates, fallback_level, calls) ==
  IF fallback_level <= MaxFallbackLevel
  THEN LET model_name == choose_model_based_on_message(fallback_level)
           t == ai_try(provider[fallback_level], jsonPropagates)
           calls2 == Append(calls, model_name)
       IN CASE t.step = "success" ->
                 [raised |-> FALSE, success |-> TRUE, reply_msg |-> t.reply_msg, calls |-> calls2]
            [] t.step = "raise" ->
                 [raised |-> TRUE, success |-> FALSE, reply_msg |-> <<>>, calls |-> calls2]
            [] OTHER -> ai_loop(provider, jsonPropagates, fallback_level + 1, calls2)
  ELSE [raised |-> FALSE, success |-> FALSE, reply_msg |-> <<>>, calls |-> calls]

\* get_ai_response: the loop, then the apology when no level succeeded.
get_ai_response(provider, jsonPropagates) ==
  LET l == ai_loop(provider, jsonPropagates, 0, <<>>)
  IN IF ~l.raised /\ ~l.success THEN [l EXCEPT !.reply_msg = Apology] ELSE l

NoCall == [raised |-> FALSE, success |-> FALSE, reply_msg |-> <<"<no call>">>, calls |-> <<>>]

(***************************************************************************)
(* WeatherService: the cache test of get_weather and the retry loop of     *)
(* fetch_weather                                                           *)
(***************************************************************************)
cache_duration == 1800
max_retries == 3
retry_delay == 1

\* time.time() when the process starts; any value far above cache_duration.
Epoch0 == 1700000000

\* Bounds of the exploration.
MaxTicks == 4
TickSteps == {1, cache_duration}

\* Provider readings: temperatures in hundredths of a degree (no rounding ties).
Readings ==
  { [temp |-> 2534, feels_like |-> 2671, humidity |-> 80, description |-> "cloudy"],
    [temp |-> 3117, feels_like |-> 3542, humidity |-> 65, description |-> "clear"] }

NoReading == [temp |-> 0, feels_like |-> 0, humidity |-> 0, description |-> "none"]

\* round(x, 1) of lines 158-159, on hundredths, giving tenths.
round_1(h) == (h + 5) \div 10

\* What one session.get can produce: a 200 response with usable JSON, a
\* non-200 status, a transport error, or a 200 whose JSON lacks a field.
WeatherResponses ==
  { [kind |-> "ok", reading |-> r] : r \in Readings }
  \cup { [kind |-> k, reading |-> NoReading] : k \in {"status", "transport", "malformed"} }

\* WeatherData built at lines 156-163; timestamp is the clock at creation.
WeatherData(reading, ts) ==
  [ location |-> "Taipei",
    temperature |-> round_1(reading.temp),
    feels_like |-> round_1(reading.feels_like),
    humidity |-> reading.humidity,
    description |-> reading.description,
    timestamp |-> ts ]

\* WeatherData.to_dict: the same fields with the timestamp rendered as text.
to_dict(wd) ==
  [ location |-> wd.location, temperature |-> wd.temperature, feels_like |-> wd.feels_like,
    humidity |-> wd.humidity, description |-> wd.description,
    timestamp |-> <<"%Y-%m-%d %H:%M:%S", ToString(wd.timestamp)>> ]

NeedsFetch_Mutant(cd, ct, current_time) ==
  \/ cd = None
  \/ ct = None
  \/ current_time - TheVal(ct) >= cache_duration

\* get_weather, lines 113-115: is a fetch needed?
NeedsFetch(cd, ct, current_time) ==
  \/ cd = None
  \/ ct = None
  \/ current_time - TheVal(ct) > cache_duration

RetryDelay_Mutant(attempt) == retry_delay * (2 ^ (attempt + 1))

\* fetch_weather, line 182: the sleep after failed attempt number `attempt` (0-based).
RetryDelay(attempt) == retry_delay * (2 ^ attempt)

\* fetch_weather, line 179.
IsLastAttempt(attempt) == attempt = max_retries - 1

subscribe_Mutant(subs, user_id) == {user_id}

\* WeatherService.subscribe, line 186.
subscribe(subs, user_id) == subs \cup {user_id}

\* WeatherService.unsubscribe, lines 192-193.
unsubscribe(subs, user_id) == IF user_id \in subs THEN subs \ {user_id} ELSE subs

\* WeatherService.save_subscribers, lines 132-136: a failed write is swallowed.
save_subscribers(ref, subs, save_ok) == IF save_ok THEN subs ELSE ref
(***************************************************************************)
(* TimeContext                                                             *)
(***************************************************************************)
\* Asia/Taipei is UTC+8 without daylight saving.
TaipeiOffset == 28800
LocalSeconds(t) == t + TaipeiOffset
LocalHour(t) == (LocalSeconds(t) % 86400) \div 3600
LocalMinute(t) == (LocalSeconds(t) % 3600) \div 60

\* TimeContext.get_greeting, lines 210-222.
get_greeting(t) ==
  LET hour == LocalHour(t)
  IN IF 5 <= hour /\ hour < 11 THEN "<good morning>"
     ELSE IF 11 <= hour /\ hour < 13 THEN "<good noon>"
     ELSE IF 13 <= hour /\ hour < 18 THEN "<good afternoon>"
     ELSE IF 18 <= hour /\ hour < 22 THEN "<good evening>"
     ELSE "<good night>"

\* TimeContext.get_detailed_context, lines 226-242: the date (as the local
\* day number), the weekday (Monday = 0; 1970-01-01 was a Thursday) and HH:MM.
get_detailed_context(t) ==
  LET day == LocalSeconds(t) \div 86400
  IN << "<now is>", ToString(day), "<weekday>", ToString((day + 3) % 7),
        ToString(LocalHour(t)), ":", ToString(LocalMinute(t)) >>

(***************************************************************************)
(* MessageHandler: keyword tables and the decision logic                   *)
(* Each CJK character of the source is one token, written in pinyin.       *)
(***************************************************************************)
Contains(msg, kw) ==
  \E i \in 1 .. (Len(msg) - Len(kw) + 1) : SubSeq(msg, i, i + Len(kw) - 1) = kw

AnyKeyword(msg, kws) == \E kw \in kws : Contains(msg, kw)

\* str.lower on the alphabet of Messages, whose only upper-case letters are H and I.
lower_char(c) == IF c = "H" THEN "h" ELSE IF c = "I" THEN "i" ELSE c

lower(msg) == [i \in 1 .. Len(msg) |-> lower_char(msg[i])]

\* MessageHandler.weather_patterns, lines 257-264.
weather_patterns ==
  [ general |-> { <<"tian", "qi">>, <<"tian", "qi", "ru", "he">>, <<"jin", "tian", "tian", "qi">> },
    temperature |-> { <<"wen", "du">>, <<"ji", "du">>, <<"re", "bu", "re">> },
    humidity |-> { <<"shi", "du">>, <<"shi1", "du">>, <<"shi", "bu", "shi">> },
    feels_like |-> { <<"ti", "gan">>, <<"gan", "jue", "wen", "du">> },
    subscribe |-> { <<"ding", "yue", "tian", "qi">>, <<"tian", "qi", "ding", "yue">> },
    unsubscribe |-> { <<"qu", "xiao", "ding", "yue">>, <<"ting", "zhi", "tian", "qi", "tui", "bo">> } ]

\* enhance_message, lines 313-316.
patterns ==
  [ high_priority |-> { <<"ji", "dian">>, <<"xian", "zai", "shi2", "jian">>, <<"ri", "qi1">>, <<"ji", "hao">> },
    low_priority |-> { <<"zao">>, <<"wu">>, <<"wan">>, <<"h", "i">>, <<"h", "e", "l", "l", "o">>,
                       <<"ni", "hao3">>, <<"ha", "luo">> } ]

SubscribedText == << "<subscribed to the daily weather push at 6:00>" >>
UnsubscribedText == << "<weather push subscription cancelled>" >>
WeatherErrorText == << "<sorry, error while getting the weather>" >>
NeutralAck == "<hello!>"

\* WeatherData.format_message, lines 89-97.
format_message(wd) ==
  << "<location>", wd.location, "<temperature>", ToString(wd.temperature),
     "<feels like>", ToString(wd.feels_like), "<humidity>", ToString(wd.humidity),
     "<condition>", wd.description >>

\* handle_weather_query, lines 269-275: which subscription keyword matches.
SubscriptionKeyword(msg) ==
  IF AnyKeyword(msg, weather_patterns.subscribe) THEN "subscribe"
  ELSE IF AnyKeyword(msg, weather_patterns.unsubscribe) THEN "unsubscribe"
  ELSE "none"

\* handle_weather_query, lines 281-301, once get_weather returned wd:
\* the answer, or None when no weather keyword matches.
WeatherAnswer(msg, wd) ==
  IF AnyKeyword(msg, weather_patterns.temperature)
  THEN Some(<< "<temperature now>", ToString(wd.temperature) >>)
  ELSE IF AnyKeyword(msg, weather_patterns.humidity)
  THEN Some(<< "<humidity now>", ToString(wd.humidity) >>)
  ELSE IF AnyKeyword(msg, weather_patterns.feels_like)
  THEN Some(<< "<feels like now>", ToString(wd.feels_like) >>)
  ELSE IF AnyKeyword(msg, weather_patterns.general)
  THEN Some(format_message(wd))
  ELSE None

\* handle_weather_query, lines 277-301: wres is the outcome of get_weather.
WeatherQueryResult(msg, wres) ==
  IF wres.raised THEN Some(WeatherErrorText) ELSE WeatherAnswer(msg, TheVal(wres.data))

\* enhance_message, line 322.
DebounceExpired(current_time, last) == current_time - last > 1800

\* enhance_message, lines 311-329, when handle_weather_query returned None:
\* the text returned and the new value of _last_time_mention.
TimeEnhance(msg, current_time, last) ==
  IF AnyKeyword(msg, patterns.high_priority)
  THEN [out |-> get_detailed_context(current_time) \o <<"\n">> \o msg, last |-> last]
  ELSE IF AnyKeyword(lower(msg), patterns.low_priority)
  THEN IF DebounceExpired(current_time, last)
       THEN [out |-> <<get_greeting(current_time), " ">> \o msg, last |-> current_time]
       ELSE [out |-> <<NeutralAck>> \o msg, last |-> last]
  ELSE [out |-> msg, last |-> last]

\* enhance_message, lines 306-329, once handle_weather_query returned
\* weather_response (a non-empty text is truthy).
EnhanceResult(msg, weather_response, current_time, last) ==
  IF weather_response # None /\ TheVal(weather_response) # <<>>
  THEN [out |-> TheVal(weather_response), last |-> last]
  ELSE TimeEnhance(msg, current_time, last)

(***************************************************************************)
(* The message pipeline's texts and store operations                       *)
(***************************************************************************)
Users == {"u1", "u2"}

ForgetText == <<"wang", "diao", "yi", "qie", "ba">>
ForgottenText == << "<all past conversation records are forgotten>" >>
ErrorText == << "<sorry, error while processing the message>" >>
BotMention == "@bot"

\* str.replace(old, ''), for a one-token old.
replace(s, old) == SelectSeq(s, LAMBDA c : c # old)

\* on_message, lines 523-529: the content of a message the bot answers.
\* kind: dm | mention (raw carries the bot's mention).
message_content(kind, raw) ==
  IF kind = "dm" THEN raw ELSE strip(replace(raw, BotMention))

\* add_message_to_firebase, lines 419-426.
add_message_to_firebase(conv, user_id, user_message, bot_reply, t) ==
  [conv EXCEPT ![user_id] =
     Append(@, [user_message |-> user_message, bot_reply |-> bot_reply,
                timestamp |-> ToString(LocalSeconds(t))])]

clear_conversation_history_Mutant(conv, user_id) == [u \in Users |-> <<>>]

\* clear_conversation_history, lines 438-440.
clear_conversation_history(conv, user_id) == [conv EXCEPT ![user_id] = <<>>]

(***************************************************************************)
(* Inbound messages                                                        *)
(***************************************************************************)
MaxTurns == 1

Messages ==
  { <<"ding", "yue", "tian", "qi">>,        \* subscribe
    <<"qu", "xiao", "ding", "yue">>,        \* unsubscribe
    <<"tian", "qi">>,                       \* general weather
    <<"ji", "du">>,                         \* temperature
    <<"ji", "dian">>,                       \* high-priority time
    <<"zao", "ji", "dian">>,                \* greeting and time keyword
    <<"zao">>,                              \* greeting
    <<"H", "i">>,                           \* greeting, upper case
    <<"o", "k">>,                           \* no keyword
    ForgetText }

(***************************************************************************)
(* Tasks: one frame per coroutine in progress                              *)
(***************************************************************************)
Tasks == {"t1", "t2", "t3"}

IdleFrame ==
  [ entry |-> "none",       \* fetch_weather | get_weather | enhance_message | on_message | scheduler
    pc |-> "idle",          \* idle | fw_call | fw_sleep | fw_exit | typing | reply | reply_forget | reply_error | sched_new | sched_sleep | sched_error_sleep | bw_sleep | bw_fetch_user | bw_send | done
    msg |-> <<>>,           \* the message text (on_message: content)
    user |-> "none",        \* the author's id
    attempt |-> 0,          \* fetch_weather: loop variable
    wake_at |-> 0,          \* fetch_weather: end of the current sleep
    current_time |-> 0,     \* get_weather: local current_time
    own_last |-> 0,         \* on_message: _last_time_mention of the handler built at line 538
    out |-> <<>>,           \* enhance_message: the returned text
    reply_msg |-> <<>>,     \* on_message: reply_msg
    calls |-> <<>>,         \* history: provider responses received by this call, with their time
    sleeps |-> <<>>,        \* history: delays slept by this call
    fetches |-> 0,          \* history: fetch_weather executions started by this call
    pre_cached |-> None,    \* history: cached_data when get_weather started
    pre_cache_time |-> None,\* history: cache_time when get_weather started
    arrived_at |-> 0,       \* history: the clock when on_message received the message
    pre_len |-> 0,          \* history: the number of stored turns of the author at that moment
    pre_last |-> 0,         \* history: _last_time_mention when enhance_message started
    enh_time |-> 0,         \* history: current_time of line 311
    wq |-> "none",          \* history: handle_weather_query's outcome: subscribe | unsubscribe | answer | error | none
    llm_calls |-> <<>>,     \* history: models requested from the completion endpoint
    replies |-> <<>>,       \* history: texts delivered to the user by this task
    bw_attempt |-> 0,       \* broadcast_weather: loop variable
    iter_used |-> 0,        \* broadcast_weather: the dict iterator's record of the dict's size
    visited |-> {},         \* broadcast_weather: keys the dict iterator has yielded
    cur_user |-> "none",    \* broadcast_weather: user_id
    target_time |-> [day |-> 0, sod |-> 0, us |-> 0], \* schedule_weather_broadcast: target_time
    delay |-> 0,            \* schedule_weather_broadcast: delay, in seconds
    cycles |-> 0,           \* history: broadcast_weather calls made by the scheduler
    faults |-> 0,           \* history: exceptions caught at line 390
    bw_sleeps |-> <<>>,     \* history: sleeps of line 367 in the current broadcast_weather call
    bw_fetch_failed |-> 0,  \* history: attempts of the current call whose fetch_weather raised
    iter_errors |-> 0,      \* history: RuntimeErrors raised by the dict iterator in the current call
    deliveries |-> <<>>,    \* history: delivery attempts of the current call
    returned |-> FALSE,     \* history: the last broadcast_weather call returned normally
    ret |-> None,           \* returned WeatherData
    raised |-> FALSE ]      \* the call ended by raising

(***************************************************************************)
(* WeatherScheduler: the next wake time (lines 373-384)                    *)
(* A local datetime is [day, sod, us]: the day number, the second of the   *)
(* day and the microsecond.  A duration is [sec, us].                      *)
(***************************************************************************)
DaySeconds == 86400
Million == 1000000

\* WeatherScheduler.broadcast_time, line 340.
BroadcastHour == 6
BroadcastMinute == 0

\* Microsecond values of datetime.now(): the two ends of a second and the next.
Micros == {0, 1, Million - 1}

LocalTimes == [day : {0}, sod : 0 .. (DaySeconds - 1), us : Micros]

\* now >= target_time on local datetimes.
dt_ge(a, b) ==
  \/ a.day > b.day
  \/ a.day = b.day /\ a.sod > b.sod
  \/ a.day = b.day /\ a.sod = b.sod /\ a.us >= b.us

dt_gt(a, b) ==
  \/ a.day > b.day
  \/ a.day = b.day /\ a.sod > b.sod
  \/ a.day = b.day /\ a.sod = b.sod /\ a.us > b.us

\* now.replace(hour=6, minute=0, second=0, microsecond=0), lines 374-379.
replace_time(dt) ==
  [day |-> dt.day, sod |-> BroadcastHour * 3600 + BroadcastMinute * 60, us |-> 0]

TargetPassed_Mutant(dt, target) == dt_gt(dt, target)

\* Line 381.
TargetPassed(dt, target) == dt_ge(dt, target)

\* Lines 374-382: today's target, or tomorrow's when it has passed.
next_target(dt) ==
  LET target_time == replace_time(dt)
  IN IF TargetPassed(dt, target_time)
     THEN [target_time EXCEPT !.day = @ + 1]     \* += timedelta(days=1)
     ELSE target_time

\* (a - b).total_seconds() for a >= b, line 384, as whole seconds and microseconds.
total_seconds(a, b) ==
  LET secs == (a.day - b.day) * DaySeconds + (a.sod - b.sod)
  IN IF a.us >= b.us
     THEN [sec |-> secs, us |-> a.us - b.us]
     ELSE [sec |-> secs - 1, us |-> Million + a.us - b.us]

(***************************************************************************)
(* WeatherScheduler: the broadcast cycle and the scheduler loop             *)
(***************************************************************************)
\* broadcast_weather, lines 344-345.
broadcast_max_retries == 3

broadcast_retry_delay_Mutant == 60 \div 2

broadcast_retry_delay == 60

\* schedule_weather_broadcast, line 392.
error_pause == 60

\* Bounds of the exploration: broadcast_weather calls and exceptions caught
\* at line 390.
MaxCycles == 2
MaxFaults == 1

\* datetime.now(pytz.timezone('Asia/Taipei')) at clock t (whole seconds).
LocalDateTime(t) ==
  [day |-> LocalSeconds(t) \div DaySeconds, sod |-> LocalSeconds(t) % DaySeconds, us |-> 0]

\* schedule_weather_broadcast, lines 373-387, at clock t: the target and the
\* delay are computed and the task sleeps.
ScheduleNext(f, t) ==
  LET dt == LocalDateTime(t)
      target_time == next_target(dt)
      delay == total_seconds(target_time, dt)
  IN [f EXCEPT !.pc = "sched_sleep", !.target_time = target_time,
               !.delay = delay.sec, !.wake_at = t + delay.sec]

\* broadcast_weather returns to line 388; the loop starts its next iteration.
BroadcastReturns(f, t) == ScheduleNext([f EXCEPT !.returned = TRUE], t)

AttemptFailed_Mutant(f, t) ==
  IF f.bw_attempt = broadcast_max_retries - 1
  THEN [f EXCEPT !.pc = "done", !.raised = TRUE]
  ELSE [f EXCEPT !.pc = "bw_sleep",
                 !.bw_sleeps = Append(@, broadcast_retry_delay),
                 !.wake_at = t + broadcast_retry_delay]

\* broadcast_weather, lines 362-367: the handler of a failed attempt.
AttemptFailed(f, t) ==
  IF f.bw_attempt = broadcast_max_retries - 1
  THEN BroadcastReturns(f, t)
  ELSE [f EXCEPT !.pc = "bw_sleep",
                 !.bw_sleeps = Append(@, broadcast_retry_delay),
                 !.wake_at = t + broadcast_retry_delay]

IterNext_Mutant(t, f) ==
  IF f.deliveries # <<>> /\ f.deliveries[Len(f.deliveries)].result # "sent"
  THEN task' = [task EXCEPT ![t] = AttemptFailed(f, now)]
  ELSE IF subscribers \ f.visited = {}
  THEN task' = [task EXCEPT ![t] = BroadcastReturns(f, now)]
  ELSE \E u \in subscribers \ f.visited :
         task' = [task EXCEPT ![t] =
                    [f EXCEPT !.cur_user = u, !.visited = @ \cup {u}, !.pc = "bw_fetch_user"]]

\* Line 355: the for statement asks the dict iterator for its next key.  The
\* iterator raises RuntimeError when the dict's size differs from the size it
\* recorded; otherwise it yields a key it has not yielded (the dict's order is
\* not modelled: any remaining key can be next) or ends the loop (line 361).
IterNext(t, f) ==
  IF Cardinality(subscribers) # f.iter_used
  THEN task' = [task EXCEPT ![t] = AttemptFailed([f EXCEPT !.iter_errors = @ + 1], now)]
  ELSE IF subscribers \ f.visited = {}
  THEN task' = [task EXCEPT ![t] = BroadcastReturns(f, now)]
  ELSE \E u \in subscribers \ f.visited :
         task' = [task EXCEPT ![t] =
                    [f EXCEPT !.cur_user = u, !.visited = @ \cup {u}, !.pc = "bw_fetch_user"]]

\* Lines 350-355: the message is built and the iteration starts.
BeginDelivery(t, f) ==
  IterNext(t, [f EXCEPT !.iter_used = Cardinality(subscribers), !.visited = {}])

\* A delivery attempt of the current broadcast_weather call.
Delivery(f, result) == [user |-> f.cur_user, attempt |-> f.bw_attempt, result |-> result]

(***************************************************************************)
(* The clock                                                               *)
(***************************************************************************)
Tick(d) ==
  /\ ticks < MaxTicks
  /\ now' = now + d
  /\ ticks' = ticks + 1
  /\ UNCHANGED <<cacheVars, weather_data_ref, subVars, last_time_mention, conversation, task, passiveVars>>

(***************************************************************************)
(* Weather and enhancer tasks                                              *)
(***************************************************************************)
\* No other task is between its call and its return.
Sequential(t) == \A u \in Tasks \ {t} : task[u].pc = "idle"

\* A fetch that fails twice sleeps twice: it needs two clock advances.
CanFetch == ticks + (max_retries - 1) <= MaxTicks

\* Entering fetch_weather (lines 140-143).
FetchBegin(f) == [f EXCEPT !.pc = "fw_call", !.attempt = 0, !.fetches = @ + 1]

\* enhance_message after handle_weather_query returned weather_response
\* (lines 307-329), then for on_message lines 541-544 up to the typing
\* indicator.
AfterHandleWeatherQuery(t, f, weather_response) ==
  LET last == IF f.entry = "on_message" THEN f.own_last ELSE last_time_mention
      r == EnhanceResult(f.msg, weather_response, now, last)
      f2 == [f EXCEPT !.out = r.out, !.enh_time = now]
  IN IF f.entry = "on_message"
     THEN /\ task' = [task EXCEPT ![t] = [f2 EXCEPT !.own_last = r.last, !.pc = "typing"]]
          /\ UNCHANGED last_time_mention
     ELSE /\ task' = [task EXCEPT ![t] = [f2 EXCEPT !.pc = "done"]]
          /\ last_time_mention' = r.last

\* handle_weather_query after get_weather returned or raised (lines 279-301).
AfterGetWeather(t, f, wres) ==
  LET weather_response == WeatherQueryResult(f.msg, wres)
      kind == IF wres.raised THEN "error"
              ELSE IF weather_response # None THEN "answer" ELSE "none"
  IN AfterHandleWeatherQuery(t, [f EXCEPT !.wq = kind], weather_response)

\* What runs, without suspension, after fetch_weather returned wd to its caller.
FetchReturned(t, f, wd) ==
  CASE f.entry = "fetch_weather" ->
         /\ cached_data' = Some(wd)
         /\ UNCHANGED <<cache_time, last_time_mention>>
         /\ task' = [task EXCEPT ![t] = [f EXCEPT !.pc = "done", !.ret = Some(wd)]]
    [] f.entry = "get_weather" ->
         \* line 166, then lines 116-118
         /\ cached_data' = Some(wd)
         /\ cache_time' = Some(f.current_time)
         /\ UNCHANGED last_time_mention
         /\ task' = [task EXCEPT ![t] = [f EXCEPT !.pc = "done", !.ret = Some(wd)]]
    [] f.entry \in {"enhance_message", "on_message"} ->
         /\ cached_data' = Some(wd)
         /\ cache_time' = Some(f.current_time)
         /\ AfterGetWeather(t, [f EXCEPT !.ret = Some(wd)], [raised |-> FALSE, data |-> Some(wd)])
    [] f.entry = "scheduler" ->
         \* line 166, then lines 349-357
         /\ cached_data' = Some(wd)
         /\ UNCHANGED <<cache_time, last_time_mention>>
         /\ BeginDelivery(t, [f EXCEPT !.ret = Some(wd)])

FetchRaised_Mutant(t, f) ==
  CASE f.entry = "fetch_weather" ->
         /\ UNCHANGED <<cacheVars, last_time_mention>>
         /\ task' = [task EXCEPT ![t] = [f EXCEPT !.pc = "done", !.raised = TRUE]]
    [] f.entry = "get_weather" ->
         /\ UNCHANGED <<cacheVars, last_time_mention>>
         /\ task' = [task EXCEPT ![t] =
                       [f EXCEPT !.pc = "done", !.ret = cached_data, !.raised = (cached_data = None)]]
    [] f.entry \in {"enhance_message", "on_message"} ->
         /\ UNCHANGED cacheVars
         /\ AfterGetWeather(t, f, [raised |-> TRUE, data |-> None])
    [] f.entry = "scheduler" ->
         /\ UNCHANGED <<cacheVars, last_time_mention>>
         /\ task' = [task EXCEPT ![t] = AttemptFailed([f EXCEPT !.bw_fetch_failed = @ + 1], now)]

\* What runs after fetch_weather raised on its last attempt.
FetchRaised(t, f) ==
  CASE f.entry \in {"fetch_weather", "get_weather"} ->
         /\ UNCHANGED <<cacheVars, last_time_mention>>
         /\ task' = [task EXCEPT ![t] = [f EXCEPT !.pc = "done", !.raised = TRUE]]
    [] f.entry \in {"enhance_message", "on_message"} ->
         /\ UNCHANGED cacheVars
         /\ AfterGetWeather(t, f, [raised |-> TRUE, data |-> None])
    [] f.entry = "scheduler" ->
         \* lines 362-367
         /\ UNCHANGED <<cacheVars, last_time_mention>>
         /\ task' = [task EXCEPT ![t] = AttemptFailed([f EXCEPT !.bw_fetch_failed = @ + 1], now)]

\* A direct call of fetch_weather().
BeginFetchWeather(t) ==
  /\ task[t].pc = "idle"
  /\ CanFetch
  /\ task' = [task EXCEPT ![t] = FetchBegin([IdleFrame EXCEPT !.entry = "fetch_weather"])]
  /\ UNCHANGED <<weatherVars, subVars, last_time_mention, conversation, passiveVars>>

\* A direct call of fetch_weather() while no other call is in progress.
CallFetchWeather(t) == Sequential(t) /\ BeginFetchWeather(t)

GetWeatherFrame_Mutant(f) ==
  [f EXCEPT !.current_time = now + 1, !.pre_cached = cached_data, !.pre_cache_time = cache_time]

\* get_weather up to its first suspension (lines 112-116), for frame f.
GetWeatherFrame(f) ==
  [f EXCEPT !.current_time = now, !.pre_cached = cached_data, !.pre_cache_time = cache_time]

\* A call of get_weather() (lines 110-118): hit, or start of the fetch.
BeginGetWeather(t) ==
  /\ task[t].pc = "idle"
  /\ LET f == GetWeatherFrame([IdleFrame EXCEPT !.entry = "get_weather"])
     IN IF NeedsFetch(cached_data, cache_time, now)
        THEN /\ CanFetch
             /\ task' = [task EXCEPT ![t] = FetchBegin(f)]
        ELSE task' = [task EXCEPT ![t] = [f EXCEPT !.pc = "done", !.ret = cached_data]]
  /\ UNCHANGED <<weatherVars, subVars, last_time_mention, conversation, passiveVars>>

\* A call of get_weather() while no other call is in progress.
CallGetWeather(t) == Sequential(t) /\ BeginGetWeather(t)

\* enhance_message from its call to its first suspension or its return
\* (lines 303-306, 266-279); save_ok: does save_subscribers' write succeed.
StartEnhance(t, f0, save_ok) ==
  LET sk == SubscriptionKeyword(f0.msg)
  IN CASE sk = "subscribe" ->
            /\ subscribers' = subscribe(subscribers, f0.user)
            /\ subscribers_ref' = save_subscribers(subscribers_ref, subscribers', save_ok)
            /\ AfterHandleWeatherQuery(t, [f0 EXCEPT !.wq = "subscribe"], Some(SubscribedText))
       [] sk = "unsubscribe" ->
            /\ subscribers' = unsubscribe(subscribers, f0.user)
            /\ subscribers_ref' =
                 IF f0.user \in subscribers
                 THEN save_subscribers(subscribers_ref, subscribers', save_ok)
                 ELSE subscribers_ref
            /\ AfterHandleWeatherQuery(t, [f0 EXCEPT !.wq = "unsubscribe"], Some(UnsubscribedText))
       [] OTHER ->
            /\ UNCHANGED subVars
            /\ LET f == GetWeatherFrame(f0)
               IN IF NeedsFetch(cached_data, cache_time, now)
                  THEN /\ CanFetch
                       /\ task' = [task EXCEPT ![t] = FetchBegin(f)]
                       /\ UNCHANGED last_time_mention
                  ELSE AfterGetWeather(t, [f EXCEPT !.ret = cached_data],
                                       [raised |-> FALSE, data |-> cached_data])

\* A call of enhance_message(msg, user_id) on the long-lived handler instance.
CallEnhance(t, msg, user_id, save_ok) ==
  /\ task[t].pc = "idle"
  /\ Sequential(t)
  /\ StartEnhance(t, [IdleFrame EXCEPT !.entry = "enhance_message", !.msg = msg,
                                       !.user = user_id, !.pre_last = last_time_mention],
                  save_ok)
  /\ UNCHANGED <<weatherVars, conversation, passiveVars>>

\* The provider's response to the request of the current attempt arrives
\* (lines 153-182); persist_ok: does the store write of line 171 succeed.
ProviderResponds(t, resp, persist_ok) ==
  LET f == [task[t] EXCEPT !.calls = Append(@, [kind |-> resp.kind, reading |-> resp.reading, at |-> now])]
  IN /\ task[t].pc = "fw_call"
     /\ IF resp.kind = "ok"
        THEN LET wd == WeatherData(resp.reading, now)
             IN /\ weather_data_ref' =
                     IF persist_ok THEN Some(to_dict(wd)) ELSE weather_data_ref
                /\ FetchReturned(t, f, wd)
        ELSE /\ UNCHANGED weather_data_ref
             /\ IF IsLastAttempt(f.attempt)
                THEN FetchRaised(t, f)
                ELSE /\ task' = [task EXCEPT ![t] =
                           [f EXCEPT !.pc = "fw_sleep",
                                     !.sleeps = Append(@, RetryDelay(f.attempt)),
                                     !.wake_at = now + RetryDelay(f.attempt)]]
                     /\ UNCHANGED <<cacheVars, last_time_mention>>
     /\ UNCHANGED <<clockVars, subVars, conversation, passiveVars>>

\* The provider's usable response arrives (lines 153-171) and leaving the two
\* async with blocks suspends the task before the return of line 175 reaches
\* the caller: closing the response and the session yields to the event loop
\* in builds of aiohttp that wait for the connection to close.
ProviderRespondsClosing(t, resp, persist_ok) ==
  LET f == [task[t] EXCEPT !.calls = Append(@, [kind |-> resp.kind, reading |-> resp.reading, at |-> now])]
      wd == WeatherData(resp.reading, now)
  IN /\ task[t].pc = "fw_call"
     /\ task[t].entry \in {"fetch_weather", "get_weather"}
     /\ resp.kind = "ok"
     /\ cached_data' = Some(wd)
     /\ weather_data_ref' = IF persist_ok THEN Some(to_dict(wd)) ELSE weather_data_ref
     /\ task' = [task EXCEPT ![t] = [f EXCEPT !.pc = "fw_exit", !.ret = Some(wd)]]
     /\ UNCHANGED <<clockVars, cache_time, subVars, last_time_mention, conversation, passiveVars>>

\* The session is closed: fetch_weather returns to its caller (line 175),
\* and get_weather runs lines 116-118.
SessionClosed(t) ==
  LET f == task[t]
  IN /\ f.pc = "fw_exit"
     /\ IF f.entry = "get_weather"
        THEN /\ cached_data' = f.ret
             /\ cache_time' = Some(f.current_time)
        ELSE UNCHANGED cacheVars
     /\ task' = [task EXCEPT ![t] = [f EXCEPT !.pc = "done"]]
     /\ UNCHANGED <<clockVars, weather_data_ref, subVars, last_time_mention, conversation, passiveVars>>

\* asyncio.sleep of line 182 ends; the loop starts its next attempt.
SleepEnds(t) ==
  /\ task[t].pc = "fw_sleep"
  /\ now' = IF now < task[t].wake_at THEN task[t].wake_at ELSE now
  /\ ticks' = ticks + 1
  /\ task' = [task EXCEPT ![t] = [@ EXCEPT !.pc = "fw_call", !.attempt = @ + 1]]
  /\ UNCHANGED <<cacheVars, weather_data_ref, subVars, last_time_mention, conversation, passiveVars>>

\* The caller has consumed the result; the task can be reused.
Return(t) ==
  /\ task[t].pc = "done"
  /\ task' = [task EXCEPT ![t] = IdleFrame]
  /\ UNCHANGED <<weatherVars, subVars, last_time_mention, conversation, passiveVars>>

(***************************************************************************)
(* The scheduler task                                                      *)
(***************************************************************************)
\* Bound of the exploration: on_ready events counted.
MaxStarts == 3

start_Mutant(t) ==
  /\ task[t].pc = "idle"
  /\ task' = [task EXCEPT ![t] = [IdleFrame EXCEPT !.entry = "scheduler", !.pc = "sched_new"]]
  /\ scheduler_started' = TRUE

\* WeatherScheduler.start, lines 394-398; t is the task that create_task makes.
start(t) ==
  IF ~scheduler_started
  THEN /\ task[t].pc = "idle"
       /\ task' = [task EXCEPT ![t] = [IdleFrame EXCEPT !.entry = "scheduler", !.pc = "sched_new"]]
       /\ scheduler_started' = TRUE
  ELSE UNCHANGED <<task, scheduler_started>>

\* on_ready (lines 505-509) calls start().
OnReady(t) ==
  /\ start(t)
  /\ UNCHANGED <<aiVars, weatherVars, subVars, last_time_mention, conversation, sub_log,
                 sched_now, sched_target, sched_delay, start_calls>>

\* on_ready fires again (the gateway connection was re-established), counted.
OnReadyAgain(t) ==
  /\ start_calls < MaxStarts
  /\ start(t)
  /\ start_calls' = start_calls + 1
  /\ UNCHANGED <<aiVars, weatherVars, subVars, last_time_mention, conversation, sub_log,
                 sched_now, sched_target, sched_delay>>

\* The new task runs schedule_weather_broadcast up to its first sleep.
SchedulerBegins(t) ==
  /\ task[t].pc = "sched_new"
  /\ task' = [task EXCEPT ![t] = ScheduleNext(@, now)]
  /\ UNCHANGED <<weatherVars, subVars, last_time_mention, conversation, passiveVars>>

\* The end of a sleep: the clock is at the wake time (or already past it).
WakeTime(f) == IF now < f.wake_at THEN f.wake_at ELSE now

\* The sleep of line 387 ends and broadcast_weather starts (lines 388,
\* 344-349): its first attempt requests the weather.
TargetSleepEnds(t) ==
  LET f == task[t]
  IN /\ f.pc = "sched_sleep"
     /\ f.cycles < MaxCycles
     /\ now' = WakeTime(f)
     /\ task' = [task EXCEPT ![t] =
                   FetchBegin([f EXCEPT !.cycles = @ + 1, !.bw_attempt = 0, !.bw_sleeps = <<>>,
                                        !.bw_fetch_failed = 0, !.iter_errors = 0,
                                        !.deliveries = <<>>, !.returned = FALSE, !.ret = None,
                                        !.calls = <<>>, !.sleeps = <<>>, !.fetches = 0])]
     /\ UNCHANGED <<ticks, cacheVars, weather_data_ref, subVars, last_time_mention,
                    conversation, passiveVars>>

\* An exception that broadcast_weather does not handle is raised inside the
\* iteration and caught at line 390; the task pauses (line 392).
SchedulerFault(t) ==
  LET f == task[t]
  IN /\ f.pc = "sched_sleep"
     /\ f.faults < MaxFaults
     /\ now' = WakeTime(f)
     /\ task' = [task EXCEPT ![t] =
                   [f EXCEPT !.faults = @ + 1, !.pc = "sched_error_sleep",
                             !.wake_at = WakeTime(f) + error_pause]]
     /\ UNCHANGED <<ticks, cacheVars, weather_data_ref, subVars, last_time_mention,
                    conversation, passiveVars>>

\* The pause of line 392 ends; the loop starts its next iteration.
ErrorPauseEnds(t) ==
  LET f == task[t]
  IN /\ f.pc = "sched_error_sleep"
     /\ now' = WakeTime(f)
     /\ task' = [task EXCEPT ![t] = ScheduleNext(f, WakeTime(f))]
     /\ UNCHANGED <<ticks, cacheVars, weather_data_ref, subVars, last_time_mention,
                    conversation, passiveVars>>

\* The sleep of line 367 ends; the next attempt requests the weather.
BroadcastSleepEnds(t) ==
  LET f == task[t]
  IN /\ f.pc = "bw_sleep"
     /\ now' = WakeTime(f)
     /\ task' = [task EXCEPT ![t] = FetchBegin([f EXCEPT !.bw_attempt = @ + 1])]
     /\ UNCHANGED <<ticks, cacheVars, weather_data_ref, subVars, last_time_mention,
                    conversation, passiveVars>>

\* bot.fetch_user returns or raises (lines 357, 359-360).
FetchUserReturns(t, ok) ==
  LET f == task[t]
  IN /\ f.pc = "bw_fetch_user"
     /\ IF ok
        THEN task' = [task EXCEPT ![t] = [f EXCEPT !.pc = "bw_send"]]
        ELSE IterNext(t, [f EXCEPT !.deliveries = Append(@, Delivery(f, "fetch_user_failed"))])
     /\ UNCHANGED <<weatherVars, subVars, last_time_mention, conversation, passiveVars>>

\* user.send returns or raises (lines 358-360).
SendReturns(t, ok) ==
  LET f == task[t]
      result == IF ok THEN "sent" ELSE "send_failed"
  IN /\ f.pc = "bw_send"
     /\ IterNext(t, [f EXCEPT !.deliveries = Append(@, Delivery(f, result))])
     /\ UNCHANGED <<weatherVars, subVars, last_time_mention, conversation, passiveVars>>

(***************************************************************************)
(* on_message                                                              *)
(***************************************************************************)
RECURSIVE SumLen(_, _)
SumLen(conv, us) ==
  IF us = {} THEN 0
  ELSE LET u == CHOOSE x \in us : TRUE IN Len(conv[u]) + SumLen(conv, us \ {u})

\* The number of turns in the store, which bounds the exploration.
StoredTurns == SumLen(conversation, Users)

\* on_message from the event to its first suspension (lines 513-544).
\* kind: self (the bot's own message) | other (neither DM nor mention) | dm | mention;
\* store_ok: does the store's delete succeed; save_ok: does save_subscribers' write.
HandleMessage(t, kind, user_id, msg, save_ok, store_ok) ==
  LET raw == IF kind = "mention" THEN <<BotMention, " ">> \o msg ELSE msg
      f0 == [IdleFrame EXCEPT !.entry = "on_message", !.user = user_id,
                              !.arrived_at = now, !.pre_len = Len(conversation[user_id])]
  IN /\ task[t].pc = "idle"
     /\ IF kind \in {"self", "other"}
        THEN /\ task' = [task EXCEPT ![t] = [f0 EXCEPT !.pc = "done", !.msg = raw]]
             /\ UNCHANGED <<subVars, last_time_mention, conversation>>
        ELSE LET content == message_content(kind, raw)
                 f == [f0 EXCEPT !.msg = content]
             IN IF content = ForgetText
                THEN \* lines 532-535
                     /\ IF store_ok
                        THEN /\ conversation' = clear_conversation_history(conversation, user_id)
                             /\ task' = [task EXCEPT ![t] = [f EXCEPT !.pc = "reply_forget"]]
                        ELSE /\ UNCHANGED conversation
                             /\ task' = [task EXCEPT ![t] = [f EXCEPT !.pc = "reply_error"]]
                     /\ UNCHANGED <<subVars, last_time_mention>>
                ELSE \* lines 538-544: a fresh MessageHandler, _last_time_mention = 0
                     /\ StartEnhance(t, f, save_ok)
                     /\ UNCHANGED conversation
     /\ UNCHANGED <<weatherVars, passiveVars>>

\* One message at a time: no other handling is in progress when it arrives.
OnMessage(t, kind, user_id, msg, save_ok, store_ok) ==
  /\ Sequential(t)
  /\ StoredTurns < MaxTurns
  /\ HandleMessage(t, kind, user_id, msg, save_ok, store_ok)

\* Inside the typing indicator: get_ai_response (lines 544-547), which does
\* not suspend; then the reply is sent.
TypingEntered(t, provider) ==
  LET f == task[t]
      r == get_ai_response(provider, json_error_propagates)
  IN /\ f.pc = "typing"
     /\ task' = [task EXCEPT ![t] =
                   IF r.raised
                   THEN [f EXCEPT !.llm_calls = r.calls, !.pc = "reply_error"]
                   ELSE [f EXCEPT !.llm_calls = r.calls, !.reply_msg = r.reply_msg, !.pc = "reply"]]
     /\ UNCHANGED <<weatherVars, subVars, last_time_mention, conversation, passiveVars>>

\* message.reply(reply_msg) completes, then add_message_to_firebase (lines 547-548).
ReplyDelivered(t, sent_ok, store_ok) ==
  LET f == task[t]
  IN /\ f.pc = "reply"
     /\ IF sent_ok
        THEN LET f1 == [f EXCEPT !.replies = Append(@, f.reply_msg)]
             IN IF store_ok
                THEN /\ conversation' =
                          add_message_to_firebase(conversation, f.user, f.msg, f.reply_msg, now)
                     /\ task' = [task EXCEPT ![t] = [f1 EXCEPT !.pc = "done"]]
                ELSE /\ UNCHANGED conversation
                     /\ task' = [task EXCEPT ![t] = [f1 EXCEPT !.pc = "reply_error"]]
        ELSE /\ UNCHANGED conversation
             /\ task' = [task EXCEPT ![t] = [f EXCEPT !.pc = "reply_error"]]
     /\ UNCHANGED <<weatherVars, subVars, last_time_mention, passiveVars>>

\* The confirmation of the forget command is sent (lines 534-535).
ForgetReplyDelivered(t, sent_ok) ==
  LET f == task[t]
  IN /\ f.pc = "reply_forget"
     /\ task' = [task EXCEPT ![t] =
                   IF sent_ok
                   THEN [f EXCEPT !.replies = Append(@, ForgottenText), !.pc = "done"]
                   ELSE [f EXCEPT !.pc = "reply_error"]]
     /\ UNCHANGED <<weatherVars, subVars, last_time_mention, conversation, passiveVars>>

\* The except clause of lines 550-552 sends its error text; if that send
\* fails too, the exception leaves on_message.
ErrorReplyDelivered(t, sent_ok) ==
  LET f == task[t]
  IN /\ f.pc = "reply_error"
     /\ task' = [task EXCEPT ![t] =
                   IF sent_ok
                   THEN [f EXCEPT !.replies = Append(@, ErrorText), !.pc = "done"]
                   ELSE [f EXCEPT !.raised = TRUE, !.pc = "done"]]
     /\ UNCHANGED <<weatherVars, subVars, last_time_mention, conversation, passiveVars>>

(***************************************************************************)
(* Specifications                                                          *)
(***************************************************************************)
vars == <<aiVars, weatherVars, subVars, last_time_mention, conversation, task, sub_log, schedVars>>

InitAIVars ==
  /\ ai_provider = [l \in Levels |-> CHOOSE r \in Responses : r.transport]
  /\ json_error_propagates = FALSE
  /\ ai_out = NoCall

InitWeatherVars ==
  /\ now = Epoch0
  /\ ticks = 0
  /\ cached_data = None
  /\ cache_time = None
  /\ weather_data_ref = None
  /\ task = [t \in Tasks |-> IdleFrame]

InitSchedVars ==
  /\ sched_now = [day |-> 0, sod |-> 0, us |-> 0]
  /\ sched_target = None
  /\ sched_delay = None
  /\ scheduler_started = FALSE
  /\ start_calls = 0
  /\ start_calls = 0

InitMessageVars ==
  /\ InitSchedVars
  /\ sub_log = <<>>
  /\ subscribers = {}
  /\ subscribers_ref = {}
  /\ last_time_mention = 0
  /\ conversation = [u \in Users |-> <<>>]

\* get_ai_response applied to every provider behaviour.
InitAI ==
  /\ ai_provider \in [Levels -> Responses]
  /\ json_error_propagates \in BOOLEAN
  /\ ai_out = NoCall
  /\ InitWeatherVars
  /\ InitMessageVars

AiRespond ==
  /\ ai_out = NoCall
  /\ ai_out' = get_ai_response(ai_provider, json_error_propagates)
  /\ UNCHANGED <<ai_provider, json_error_propagates, weatherVars, subVars,
                 last_time_mention, conversation, task, sub_log, schedVars>>

NextAI == AiRespond

SpecAI == InitAI /\ [][NextAI]_vars

\* Sequential calls of get_weather and fetch_weather under a moving clock.
InitWeather == InitAIVars /\ InitWeatherVars /\ InitMessageVars

\* One task at a time.
OneTask == {"t1"}

NextWeather ==
  \/ \E d \in TickSteps : Tick(d)
  \/ \E t \in OneTask : CallGetWeather(t)
  \/ \E t \in OneTask : CallFetchWeather(t)
  \/ \E t \in OneTask, resp \in WeatherResponses, persist_ok \in BOOLEAN :
       ProviderResponds(t, resp, persist_ok)
  \/ \E t \in OneTask : SleepEnds(t)
  \/ \E t \in OneTask : Return(t)

SpecWeather == InitWeather /\ [][NextWeather]_vars

\* Sequential calls of enhance_message on one MessageHandler instance.
InitEnhance == InitAIVars /\ InitWeatherVars /\ InitMessageVars

\* One task at a time, the store's writes succeed, and the provider either
\* answers with one reading or fails.
OneReadingResponses == { r \in WeatherResponses : r.kind \in {"ok", "transport"} /\ r.reading.temp # 3117 }

NextEnhance ==
  \/ \E d \in TickSteps : Tick(d)
  \/ \E t \in OneTask, msg \in Messages, u \in Users : CallEnhance(t, msg, u, TRUE)
  \/ \E t \in OneTask, resp \in OneReadingResponses : ProviderResponds(t, resp, TRUE)
  \/ \E t \in OneTask : SleepEnds(t)
  \/ \E t \in OneTask : Return(t)

SpecEnhance == InitEnhance /\ [][NextEnhance]_vars

\* Messages handled one at a time by on_message.
PipelineResponses ==
  { r \in Responses :
      \/ r.transport
      \/ r.status_code = 200 /\ r.body = "badchoices"
      \/ r.status_code = 200 /\ r.body = "content" /\ r.content = <<" ", "a">> }

\* The endpoint fails its first k levels with a transport error and then
\* always answers r.
PipelineProviders ==
  { [l \in Levels |-> IF l < k THEN CHOOSE x \in Responses : x.transport ELSE r] :
      k \in {0, 1}, r \in PipelineResponses }

MessageKinds == {"self", "other", "dm", "mention"}

PipelineMessages ==
  { m \in Messages : m \in { <<"ding", "yue", "tian", "qi">>, <<"ji", "du">>, <<"zao">>, <<"o", "k">>, ForgetText } }

MaxPipelineTicks == 1

\* One step takes the clock past the cache's time-to-live.
PipelineTickSteps == {cache_duration + 1}

PipelineTick(d) == ticks < MaxPipelineTicks /\ Tick(d)

InitPipeline == InitAIVars /\ InitWeatherVars /\ InitMessageVars

NextPipeline ==
  \/ \E d \in PipelineTickSteps : PipelineTick(d)
  \/ \E t \in OneTask, kind \in MessageKinds, u \in Users, msg \in PipelineMessages, store_ok \in BOOLEAN :
       OnMessage(t, kind, u, msg, TRUE, store_ok)
  \/ \E t \in OneTask, resp \in OneReadingResponses : ProviderResponds(t, resp, TRUE)
  \/ \E t \in OneTask : SleepEnds(t)
  \/ \E t \in OneTask, provider \in PipelineProviders : TypingEntered(t, provider)
  \/ \E t \in OneTask, sent_ok \in BOOLEAN, store_ok \in BOOLEAN : ReplyDelivered(t, sent_ok, store_ok)
  \/ \E t \in OneTask, sent_ok \in BOOLEAN : ForgetReplyDelivered(t, sent_ok)
  \/ \E t \in OneTask, sent_ok \in BOOLEAN : ErrorReplyDelivered(t, sent_ok)
  \/ \E t \in OneTask : Return(t)

SpecPipeline == InitPipeline /\ [][NextPipeline]_vars

\* Direct calls of subscribe and unsubscribe on a WeatherService whose
\* subscriber set was loaded from the store (or left empty when the load
\* found nothing or failed).
InitSub ==
  /\ InitAIVars /\ InitWeatherVars /\ InitSchedVars
  /\ last_time_mention = 0
  /\ conversation = [u \in Users |-> <<>>]
  /\ sub_log = <<>>
  /\ subscribers_ref \in SUBSET Users
  /\ subscribers \in {subscribers_ref, {}}

\* The last two calls, each with the subscriber set it found.
Logged(op, user_id) ==
  LET e == [op |-> op, user |-> user_id, before |-> subscribers]
  IN IF sub_log = <<>> THEN <<e>> ELSE <<sub_log[Len(sub_log)], e>>

\* WeatherService.subscribe(user_id), lines 184-188.
Subscribe(user_id, save_ok) ==
  /\ subscribers' = subscribe(subscribers, user_id)
  /\ subscribers_ref' = save_subscribers(subscribers_ref, subscribers', save_ok)
  /\ sub_log' = Logged("subscribe", user_id)
  /\ UNCHANGED <<aiVars, weatherVars, last_time_mention, conversation, task, schedVars>>

\* WeatherService.unsubscribe(user_id), lines 190-195.
Unsubscribe(user_id, save_ok) ==
  /\ subscribers' = unsubscribe(subscribers, user_id)
  /\ subscribers_ref' =
       IF user_id \in subscribers
       THEN save_subscribers(subscribers_ref, subscribers', save_ok)
       ELSE subscribers_ref
  /\ sub_log' = Logged("unsubscribe", user_id)
  /\ UNCHANGED <<aiVars, weatherVars, last_time_mention, conversation, task, schedVars>>

NextSub ==
  \/ \E u \in Users, save_ok \in BOOLEAN : Subscribe(u, save_ok)
  \/ \E u \in Users, save_ok \in BOOLEAN : Unsubscribe(u, save_ok)

SpecSub == InitSub /\ [][NextSub]_vars

\* The scheduler's wake-time computation at every local time of day.
InitSched ==
  /\ InitAIVars /\ InitWeatherVars
  /\ sub_log = <<>>
  /\ subscribers = {}
  /\ subscribers_ref = {}
  /\ last_time_mention = 0
  /\ conversation = [u \in Users |-> <<>>]
  /\ sched_now \in LocalTimes
  /\ sched_target = None
  /\ sched_delay = None
  /\ scheduler_started = FALSE
  /\ start_calls = 0

\* schedule_weather_broadcast, lines 373-385: one computation of the delay.
SchedCompute ==
  /\ sched_delay = None
  /\ sched_target' = Some(next_target(sched_now))
  /\ sched_delay' = Some(total_seconds(next_target(sched_now), sched_now))
  /\ UNCHANGED <<sched_now, scheduler_started, start_calls, aiVars, weatherVars, subVars,
                 last_time_mention, conversation, task, sub_log>>

NextSched == SchedCompute

SpecSched == InitSched /\ [][NextSched]_vars

\* Messages of two users handled concurrently by on_message: a handling can
\* be suspended at the weather request, the typing indicator or a reply while
\* another message arrives.
ChatTasks == {"t1", "t2"}

ChatMessages == { m \in Messages : m \in { <<"o", "k">>, ForgetText } }

MaxChatTurns == 2

ChatResponses == { r \in OneReadingResponses : r.kind = "ok" }

ChatProviders == { p \in PipelineProviders : p[0].status_code = 200 /\ p[0].body = "content" }

ChatTickSteps == {1}

ChatMessage(t, kind, user_id, msg, store_ok) ==
  /\ msg # ForgetText => StoredTurns < MaxChatTurns
  /\ HandleMessage(t, kind, user_id, msg, TRUE, store_ok)

InitChat == InitAIVars /\ InitWeatherVars /\ InitMessageVars

NextChat ==
  \/ \E d \in ChatTickSteps : PipelineTick(d)
  \/ \E t \in ChatTasks, kind \in {"dm"}, u \in Users, msg \in ChatMessages, store_ok \in BOOLEAN :
       ChatMessage(t, kind, u, msg, store_ok)
  \/ \E t \in ChatTasks, resp \in ChatResponses : ProviderResponds(t, resp, TRUE)
  \/ \E t \in ChatTasks, provider \in ChatProviders : TypingEntered(t, provider)
  \/ \E t \in ChatTasks : ReplyDelivered(t, TRUE, TRUE)
  \/ \E t \in ChatTasks : ForgetReplyDelivered(t, TRUE)
  \/ \E t \in ChatTasks : ErrorReplyDelivered(t, TRUE)
  \/ \E t \in ChatTasks : Return(t)

SpecChat == InitChat /\ [][NextChat]_vars

\* The scheduler task alone: broadcast cycles over a subscriber set that
\* nothing else changes.
SchedTasks == {"t1"}

\* The clock when the process starts: 05:56:40, 06:00:00 and 06:13:20 local time.
BroadcastStarts == {Epoch0 - 1000, Epoch0 - 800, Epoch0}

InitBroadcast ==
  /\ InitAIVars /\ InitSchedVars
  /\ now \in BroadcastStarts
  /\ ticks = 0
  /\ cached_data = None
  /\ cache_time = None
  /\ weather_data_ref = None
  /\ task = [t \in Tasks |-> IdleFrame]
  /\ sub_log = <<>>
  /\ subscribers \in SUBSET Users
  /\ subscribers_ref = subscribers
  /\ last_time_mention = 0
  /\ conversation = [u \in Users |-> <<>>]

\* The steps of the scheduler task.
SchedulerStep ==
  \/ \E t \in SchedTasks : SchedulerBegins(t)
  \/ \E t \in SchedTasks : TargetSleepEnds(t)
  \/ \E t \in SchedTasks : SchedulerFault(t)
  \/ \E t \in SchedTasks : ErrorPauseEnds(t)
  \/ \E t \in SchedTasks, resp \in OneReadingResponses : ProviderResponds(t, resp, TRUE)
  \/ \E t \in SchedTasks : SleepEnds(t)
  \/ \E t \in SchedTasks : BroadcastSleepEnds(t)
  \/ \E t \in SchedTasks, ok \in BOOLEAN : FetchUserReturns(t, ok)
  \/ \E t \in SchedTasks, ok \in BOOLEAN : SendReturns(t, ok)

NextBroadcast ==
  \/ \E t \in SchedTasks : OnReady(t)
  \/ SchedulerStep

SpecBroadcast == InitBroadcast /\ [][NextBroadcast]_vars

\* The message-handling task subscribes and unsubscribes users while the
\* scheduler task is suspended at a network call of its delivery loop.  The
\* exploration lets the subscriber set change once between two steps of the
\* loop's iterator.
DeliverySuspended ==
  \E t \in SchedTasks :
    /\ task[t].pc \in {"bw_fetch_user", "bw_send"}
    /\ Cardinality(subscribers) = task[t].iter_used

\* WeatherService.subscribe(user_id), lines 184-188, run by a message handler.
RacingSubscribe(user_id) ==
  /\ DeliverySuspended
  /\ subscribers' = subscribe(subscribers, user_id)
  /\ subscribers_ref' = save_subscribers(subscribers_ref, subscribers', TRUE)
  /\ UNCHANGED <<weatherVars, last_time_mention, conversation, task, passiveVars>>

\* WeatherService.unsubscribe(user_id), lines 190-195, run by a message handler.
RacingUnsubscribe(user_id) ==
  /\ DeliverySuspended
  /\ subscribers' = unsubscribe(subscribers, user_id)
  /\ subscribers_ref' =
       IF user_id \in subscribers
       THEN save_subscribers(subscribers_ref, subscribers', TRUE)
       ELSE subscribers_ref
  /\ UNCHANGED <<weatherVars, last_time_mention, conversation, task, passiveVars>>

\* The process starts at 06:13:20 local time and the weather provider answers.
InitRace == InitBroadcast /\ now = Epoch0

NextRace ==
  \/ \E t \in SchedTasks : OnReady(t)
  \/ \E t \in SchedTasks : SchedulerBegins(t)
  \/ \E t \in SchedTasks : TargetSleepEnds(t)
  \/ \E t \in SchedTasks, resp \in ChatResponses : ProviderResponds(t, resp, TRUE)
  \/ \E t \in SchedTasks : BroadcastSleepEnds(t)
  \/ \E t \in SchedTasks, ok \in BOOLEAN : FetchUserReturns(t, ok)
  \/ \E t \in SchedTasks, ok \in BOOLEAN : SendReturns(t, ok)
  \/ \E u \in Users : RacingSubscribe(u)
  \/ \E u \in Users : RacingUnsubscribe(u)

SpecRace == InitRace /\ [][NextRace]_vars

\* The event loop runs a task whose awaited call or sleep has completed.
SpecSchedulerLive == InitBroadcast /\ [][NextBroadcast]_vars /\ WF_vars(SchedulerStep)

\* Overlapping calls of get_weather (message handlers) and direct calls of
\* fetch_weather (the scheduler's line 349) under a moving clock; the
\* provider answers.
CacheTasks == {"t1", "t2", "t3"}

\* The task that stands for the scheduler.
DirectFetchTasks == {"t3"}

MaxCacheTicks == 1

\* One second, or past the cache's time-to-live.
CacheTickSteps == {1, cache_duration + 1}

CacheTick(d) == ticks < MaxCacheTicks /\ Tick(d)

InitCache == InitAIVars /\ InitWeatherVars /\ InitMessageVars

NextCache ==
  \/ \E d \in CacheTickSteps : CacheTick(d)
  \/ \E t \in CacheTasks : BeginGetWeather(t)
  \/ \E t \in DirectFetchTasks : BeginFetchWeather(t)
  \/ \E t \in CacheTasks, resp \in ChatResponses : ProviderResponds(t, resp, TRUE)
  \/ \E t \in CacheTasks, resp \in ChatResponses : ProviderRespondsClosing(t, resp, TRUE)
  \/ \E t \in CacheTasks : SessionClosed(t)
  \/ \E t \in CacheTasks : Return(t)

SpecCache == InitCache /\ [][NextCache]_vars

\* on_ready fires any number of times, at any point of the scheduler task's
\* life; create_task may be given any task that is not in use.
InitStart == InitRace

NextStart ==
  \/ \E t \in Tasks : OnReadyAgain(t)
  \/ \E t \in Tasks : SchedulerBegins(t)
  \/ \E t \in Tasks : TargetSleepEnds(t)
  \/ \E t \in Tasks, resp \in ChatResponses : ProviderResponds(t, resp, TRUE)
  \/ \E t \in Tasks, ok \in BOOLEAN : FetchUserReturns(t, ok)
  \/ \E t \in Tasks, ok \in BOOLEAN : SendReturns(t, ok)

SpecStart == InitStart /\ [][NextStart]_vars
(***************************************************************************)
(* Claims about get_ai_response (specification SpecAI) *)
(***************************************************************************)
\* A level succeeds when its response is a success status carrying a usable
\* choices[0].message.content; every other response is a failure of that level.
LevelSucceeds(k) ==
  /\ ~ai_provider[k].transport
  /\ ai_provider[k].status_code = 200
  /\ ai_provider[k].body = "content"

FirstSuccess(k) == LevelSucceeds(k) /\ \A j \in 0 .. (k - 1) : ~LevelSucceeds(j)

AllLevelsFail == \A k \in Levels : ~LevelSucceeds(k)

AiCalled == ai_out # NoCall

\* C2: when level k is the first level that succeeds, get_ai_response calls
\* exactly the models of levels 0..k in rank order, each once, returns the
\* stripped completion text of level k and calls no model beyond level k.
C2_FirstSuccessLadder ==
  AiCalled =>
    \A k \in Levels :
      FirstSuccess(k) =>
        /\ ~ai_out.raised
        /\ ai_out.calls = SubSeq(model_sequence, 1, k + 1)
        /\ ai_out.reply_msg = strip(ai_provider[k].content)

\* C3: when every level fails, get_ai_response makes exactly 4 calls, one per
\* model in rank order, and returns the fixed apology string.
C3_ExhaustionApology ==
  (AiCalled /\ AllLevelsFail) =>
    /\ ~ai_out.raised
    /\ ai_out.calls = model_sequence
    /\ ai_out.reply_msg = Apology

\* C4: no failure of a single model call propagates out of get_ai_response as
\* an exception, and the ladder ends without success only after all 4 levels
\* were tried.
C4_EveryFailureAdvances ==
  AiCalled =>
    /\ ~ai_out.raised
    /\ (~ai_out.success => Len(ai_out.calls) = MaxFallbackLevel + 1)

(***************************************************************************)
(* Claims about get_weather and fetch_weather (specification SpecWeather) *)
(***************************************************************************)
GetWeatherReturned(f) == f.entry = "get_weather" /\ f.pc = "done" /\ ~f.raised

\* The cache was fresh when the call started: it held a snapshot no older
\* than 1800 seconds.
FreshAtStart(f) ==
  /\ f.pre_cached # None
  /\ f.pre_cache_time # None
  /\ f.current_time - TheVal(f.pre_cache_time) <= 1800

\* C5: a get_weather call made while now - cache_time <= 1800 returns the
\* cached snapshot with no upstream fetch and leaves the cache alone; a call
\* made on an empty cache or with now - cache_time > 1800 performs exactly one
\* fetch, returns its snapshot and updates cached_data and cache_time.
C5_CacheTtl ==
  \A t \in Tasks :
    LET f == task[t] IN
    GetWeatherReturned(f) =>
      IF FreshAtStart(f)
      THEN /\ f.fetches = 0
           /\ f.calls = <<>>
           /\ f.ret = f.pre_cached
           /\ cached_data = f.pre_cached
           /\ cache_time = f.pre_cache_time
      ELSE /\ f.fetches = 1
           /\ f.calls # <<>>
           /\ f.ret = cached_data
           /\ cached_data # None
           /\ TheVal(cached_data) = WeatherData(f.calls[Len(f.calls)].reading, f.calls[Len(f.calls)].at)
           /\ cache_time = Some(f.current_time)

\* C5 witness: a call made after the clock passed ttl on a filled cache has
\* performed a second fetch.
C5_Witness ==
  \E t \in Tasks :
    /\ GetWeatherReturned(task[t])
    /\ task[t].pre_cache_time # None
    /\ task[t].current_time - TheVal(task[t].pre_cache_time) > 1800
    /\ task[t].fetches = 1

\* A call answered from a cache that is exactly 1800 seconds old.
C5_BoundaryHit ==
  \E t \in Tasks :
    /\ GetWeatherReturned(task[t])
    /\ task[t].pre_cache_time # None
    /\ task[t].current_time - TheVal(task[t].pre_cache_time) = 1800
    /\ task[t].fetches = 0

Failed(c) == c.kind # "ok"

\* C6: fetch_weather makes at most 3 provider calls; after the i-th failed
\* call (i = 1, 2) it sleeps 2^(i-1) seconds before the next call; the first
\* successful call ends it, returning that call's snapshot; the third failure
\* raises without another sleep.
C6_FetchBackoff ==
  \A t \in Tasks :
    LET f == task[t]
        n == Len(f.calls)
    IN f.fetches = 1 =>
         /\ n <= 3
         /\ \A i \in 1 .. (n - 1) : Failed(f.calls[i])
         /\ \A i \in 1 .. Len(f.sleeps) : f.sleeps[i] = 2 ^ (i - 1)
         /\ \A i \in 1 .. (n - 1) : f.calls[i + 1].at - f.calls[i].at >= 2 ^ (i - 1)
         /\ f.pc = "fw_call" => Len(f.sleeps) = n
         /\ f.pc = "fw_sleep" => (Len(f.sleeps) = n /\ n <= 2 /\ Failed(f.calls[n]))
         /\ (f.pc = "done" /\ ~f.raised) =>
              /\ n >= 1
              /\ ~Failed(f.calls[n])
              /\ Len(f.sleeps) = n - 1
              /\ f.ret # None
              /\ TheVal(f.ret) = WeatherData(f.calls[n].reading, f.calls[n].at)
         /\ (f.pc = "done" /\ f.raised) =>
              /\ n = 3
              /\ Failed(f.calls[n])
              /\ f.sleeps = <<1, 2>>

\* C6 witness: a provider that failed twice and then succeeded.
C6_Witness ==
  \E t \in Tasks :
    LET f == task[t] IN
    /\ f.entry = "fetch_weather"
    /\ f.pc = "done"
    /\ ~f.raised
    /\ Len(f.calls) = 3
    /\ Failed(f.calls[1]) /\ Failed(f.calls[2]) /\ ~Failed(f.calls[3])
    /\ f.sleeps = <<1, 2>>

(***************************************************************************)
(* Claims about overlapping cache accesses (specification SpecCache) *)
(***************************************************************************)
\* get_weather calls whose fetch_weather execution is in progress.
FetchingCallers ==
  { t \in Tasks : task[t].entry = "get_weather" /\ task[t].pc \in {"fw_call", "fw_sleep", "fw_exit"} }

\* C17: get_weather callers that overlap on an empty or stale cache perform
\* at most one redundant fetch: at most two fetch_weather executions of such
\* callers are in progress together.
C17_AtMostOneRedundantFetch == Cardinality(FetchingCallers) <= 2

\* A get_weather call that returned the cached snapshot without a fetch.
CacheHit(f) ==
  f.entry = "get_weather" /\ f.pc = "done" /\ f.fetches = 0

\* C18: whenever cache_time is set, cached_data holds a snapshot obtained
\* from the provider at or after the instant cache_time records, so a snapshot
\* that get_weather returns from the cache was obtained at most 1800 seconds
\* before the call started.
C18_SnapshotNotOlderThanCacheTime ==
  /\ cache_time # None =>
       /\ cached_data # None
       /\ TheVal(cached_data).timestamp >= TheVal(cache_time)
  /\ \A t \in Tasks :
       CacheHit(task[t]) =>
         /\ task[t].ret # None
         /\ task[t].current_time - TheVal(task[t].ret).timestamp <= 1800

\* C18 witness: a call answered from the cache with a snapshot that was
\* written into the cache after the instant in cache_time.
C18_Witness ==
  \E t \in Tasks :
    /\ CacheHit(task[t])
    /\ task[t].pre_cache_time # None
    /\ TheVal(task[t].ret).timestamp > TheVal(task[t].pre_cache_time)

(***************************************************************************)
(* Claim about a failing get_weather (specification SpecWeather) *)
(***************************************************************************)
\* A get_weather call that needed a fetch has ended, all 3 requests of its
\* fetch_weather execution having failed.
AllAttemptsFailed(f) ==
  /\ f.entry = "get_weather"
  /\ f.pc = "done"
  /\ Len(f.calls) = 3
  /\ \A i \in DOMAIN f.calls : Failed(f.calls[i])

\* C21: when get_weather needs a fetch and fetch_weather fails on all 3
\* attempts, get_weather raises and returns nothing, not even the stale
\* snapshot; cached_data and cache_time keep the values they had before the
\* call, so the cache test of the next get_weather call asks for a fetch again.
C21_FailedFetchKeepsCache ==
  \A t \in Tasks :
    LET f == task[t] IN
    AllAttemptsFailed(f) =>
      /\ f.raised
      /\ f.ret = None
      /\ f.fetches = 1
      /\ cached_data = f.pre_cached
      /\ cache_time = f.pre_cache_time
      /\ NeedsFetch(cached_data, cache_time, now)

\* C21 witness: the call found a stale snapshot in the cache, its 3 requests
\* failed, and the stale snapshot is still what the cache holds.
C21_Witness ==
  \E t \in Tasks :
    /\ AllAttemptsFailed(task[t])
    /\ task[t].raised
    /\ task[t].pre_cached # None
    /\ task[t].pre_cache_time # None
    /\ cached_data = task[t].pre_cached

(***************************************************************************)
(* Claims about enhance_message (specification SpecEnhance) *)
(***************************************************************************)
EnhanceReturned(f) == f.entry = "enhance_message" /\ f.pc = "done"

MatchesSubscription(msg) ==
  AnyKeyword(msg, weather_patterns.subscribe \cup weather_patterns.unsubscribe)

MatchesWeather(msg) ==
  AnyKeyword(msg, weather_patterns.general \cup weather_patterns.temperature
                    \cup weather_patterns.humidity \cup weather_patterns.feels_like)

MatchesTime(msg) == AnyKeyword(msg, patterns.high_priority)

MatchesGreeting(msg) == AnyKeyword(lower(msg), patterns.low_priority)

\* The greeting rule is the first rule that matches msg.
GreetingOnly(msg) ==
  MatchesGreeting(msg) /\ ~MatchesSubscription(msg) /\ ~MatchesWeather(msg) /\ ~MatchesTime(msg)

\* The time rule is the first rule that matches msg.
TimeOnly(msg) == MatchesTime(msg) /\ ~MatchesSubscription(msg) /\ ~MatchesWeather(msg)

\* C7: a message that matches no subscribe/unsubscribe, weather, time or
\* greeting keyword is returned unchanged by enhance_message, in every state of
\* the weather cache and for every outcome of the weather provider.
C7_NoMatchPassThrough ==
  \A t \in Tasks :
    LET f == task[t] IN
    ( /\ EnhanceReturned(f)
      /\ ~MatchesSubscription(f.msg) /\ ~MatchesWeather(f.msg)
      /\ ~MatchesTime(f.msg) /\ ~MatchesGreeting(f.msg) )
    => f.out = f.msg

\* C8: on one handler instance, a greeting message that arrives more than
\* 1800 seconds after the last greeting injection gets the time-of-day greeting
\* prepended and moves the debounce timestamp; one that arrives within 1800
\* seconds gets the neutral acknowledgement and leaves the timestamp; a
\* high-priority time message never changes the timestamp.
\* (f.current_time is the clock when the message arrived.)
C8_GreetingDebounce ==
  \A t \in Tasks :
    LET f == task[t] IN
    EnhanceReturned(f) =>
      /\ GreetingOnly(f.msg) =>
           IF f.current_time - f.pre_last > 1800
           THEN /\ Len(f.out) = Len(f.msg) + 2
                /\ f.out[1] \in {"<good morning>", "<good noon>", "<good afternoon>",
                                 "<good evening>", "<good night>"}
                /\ SubSeq(f.out, 3, Len(f.out)) = f.msg
                /\ last_time_mention > f.pre_last
           ELSE /\ f.out = <<NeutralAck>> \o f.msg
                /\ last_time_mention = f.pre_last
      /\ TimeOnly(f.msg) => last_time_mention = f.pre_last

(***************************************************************************)
(* Claims about on_message (specification SpecPipeline) *)
(***************************************************************************)
\* The enhancer matched a subscribe/unsubscribe or weather keyword and
\* returned the confirmation or the weather answer.
ShortCircuited(f) ==
  /\ f.entry = "on_message"
  /\ f.pc \in {"typing", "reply", "reply_error", "done"}
  /\ \/ MatchesSubscription(f.msg) /\ f.out \in {SubscribedText, UnsubscribedText}
     \/ ~MatchesSubscription(f.msg) /\ MatchesWeather(f.msg) /\ f.wq = "answer"

\* C1: when the enhancer answers a subscribe/unsubscribe or weather message
\* itself, no request is sent to the completion endpoint for that message.
C1_ShortCircuitSkipsLLM ==
  \A t \in Tasks : ShortCircuited(task[t]) => task[t].llm_calls = <<>>

\* The last response this call received from the weather provider was usable.
LastFetchOk(f) == f.calls # <<>> /\ f.calls[Len(f.calls)].kind = "ok"

\* fetch_weather returned the snapshot built from its last response, and the
\* cache holds it, whether or not the store took the snapshot.
C15_FetchPart ==
  \A t \in Tasks :
    LET f == task[t] IN
    (LastFetchOk(f) /\ f.pc = "done" /\ f.entry \in {"fetch_weather", "get_weather"}) =>
      LET c == f.calls[Len(f.calls)] IN
      /\ ~f.raised
      /\ f.ret = Some(WeatherData(c.reading, c.at))
      /\ cached_data = f.ret

\* subscribe / unsubscribe completed, whether or not the store took the
\* subscriber set.
C15_SubscribePart ==
  /\ (sub_log # <<>> /\ sub_log[Len(sub_log)].op = "subscribe") =>
       subscribers = sub_log[Len(sub_log)].before \cup {sub_log[Len(sub_log)].user}
  /\ (sub_log # <<>> /\ sub_log[Len(sub_log)].op = "unsubscribe") =>
       subscribers = sub_log[Len(sub_log)].before \ {sub_log[Len(sub_log)].user}

\* The reply of line 547 was delivered to the user.
ReplySent(f) ==
  /\ f.entry = "on_message"
  /\ f.replies # <<>>
  /\ f.replies[1] = f.reply_msg
  /\ f.replies[1] # ForgottenText

\* Once the reply was delivered the user has received exactly that reply and
\* no error message is on its way, whether or not the turn was appended.
C15_ReplyPart ==
  \A t \in Tasks :
    LET f == task[t] IN
    ReplySent(f) => (f.pc = "done" /\ f.replies = <<f.reply_msg>> /\ ~f.raised)

\* C15: a failing store write does not affect the response path: fetch_weather
\* still returns the snapshot and updates the cache, subscribe / unsubscribe
\* still complete, and when appending the turn fails after the reply was
\* delivered the user has that one reply and is sent no error message.
C15_StoreFailureHarmless == C15_FetchPart /\ C15_SubscribePart /\ C15_ReplyPart

\* on_message has run the enhancer on the message of frame f.
Enhanced(f) == f.entry = "on_message" /\ f.enh_time > 0

\* C19: on_message builds a fresh enhancer (debounce timestamp 0) for every
\* message, so a greeting message that matches no higher-priority rule always
\* gets the time-of-day greeting prepended and never the neutral
\* acknowledgement, however recent the user's previous greeting.
C19_GreetingAlwaysInjected ==
  \A t \in Tasks :
    LET f == task[t] IN
    (Enhanced(f) /\ GreetingOnly(f.msg)) =>
      /\ f.pre_last = 0
      /\ f.out = <<get_greeting(f.enh_time), " ">> \o f.msg

(***************************************************************************)
(* Claim about the scheduler's delay (specification SpecSched) *)
(***************************************************************************)
\* The instant dt + d.
dt_add(dt, d) ==
  LET us == dt.us + d.us
      s == dt.sod + d.sec + (us \div Million)
  IN [day |-> dt.day + (s \div DaySeconds), sod |-> s % DaySeconds, us |-> us % Million]

SixOClock == 21600

\* C9: 0 < delay <= 86400 seconds, and now + delay is the first instant
\* strictly after now whose wall-clock time is 06:00:00: today's when now is
\* before it, otherwise tomorrow's.
C9_DelayToNextSix ==
  sched_delay # None =>
    LET d == TheVal(sched_delay)
        wake == dt_add(sched_now, d)
        before_six == sched_now.sod < SixOClock
    IN /\ d.sec > 0 \/ (d.sec = 0 /\ d.us > 0)
       /\ d.sec < 86400 \/ (d.sec = 86400 /\ d.us = 0)
       /\ d.us \in 0 .. 999999
       /\ wake.sod = SixOClock /\ wake.us = 0
       /\ wake.day = IF before_six THEN sched_now.day ELSE sched_now.day + 1
       /\ wake = TheVal(sched_target)

\* C9 witness: the delay computed at exactly 06:00:00.000000 is a full day.
C9_Witness ==
  /\ sched_now.sod = SixOClock /\ sched_now.us = 0
  /\ sched_delay = Some([sec |-> 86400, us |-> 0])

(***************************************************************************)
(* Claim about subscribe / unsubscribe (specification SpecSub) *)
(***************************************************************************)
\* The last two calls were subscribe(u) then unsubscribe(u).
SubThenUnsub ==
  /\ Len(sub_log) = 2
  /\ sub_log[1].op = "subscribe"
  /\ sub_log[2].op = "unsubscribe"
  /\ sub_log[1].user = sub_log[2].user

\* C10 as stated: subscribe(u) followed by unsubscribe(u) leaves the
\* subscriber set equal to the set S before the subscribe, whether or not u
\* was in S.
C10_RoundTripAnyUser == SubThenUnsub => subscribers = sub_log[1].before

\* C10 amended: subscribe(u) followed by unsubscribe(u) leaves the set equal
\* to S without u: equal to S when u was not in S, and S \ {u} when it was.
C10_RoundTrip ==
  SubThenUnsub =>
    /\ subscribers = sub_log[1].before \ {sub_log[1].user}
    /\ sub_log[1].user \notin sub_log[1].before => subscribers = sub_log[1].before

\* C10 witness: the round trip of a user who was not subscribed, in a
\* non-empty set.
C10_Witness ==
  /\ SubThenUnsub
  /\ sub_log[1].user \notin sub_log[1].before
  /\ sub_log[1].before # {}
  /\ subscribers = sub_log[1].before

(***************************************************************************)
(* Claims about concurrent message handling (specification SpecChat) *)
(***************************************************************************)
\* The step in which on_message, given the forget command, has deleted the
\* log (lines 532-533) and awaits the delivery of its confirmation.
ForgetRuns(t) ==
  /\ task[t].pc = "idle"
  /\ task'[t].entry = "on_message"
  /\ task'[t].msg = ForgetText
  /\ task'[t].pc = "reply_forget"

\* The step in which the confirmation of line 534 is delivered.
ForgetConfirmed(t) ==
  /\ task[t].pc = "reply_forget"
  /\ task'[t].pc = "done"
  /\ ~task'[t].raised

\* C11: handling the forget command from user u (the store's delete and the
\* delivery of the reply succeeding) deletes every turn of u, leaves the turns
\* of every other user unchanged, sends the confirmation as the only reply,
\* calls no model and appends no turn for that command.
C11_ForgetFrame ==
  [][ \A t \in Tasks :
        /\ ForgetRuns(t) =>
             /\ conversation'[task'[t].user] = <<>>
             /\ \A v \in Users \ {task'[t].user} : conversation'[v] = conversation[v]
        /\ ForgetConfirmed(t) =>
             /\ task'[t].replies = <<ForgottenText>>
             /\ task'[t].llm_calls = <<>>
             /\ conversation' = conversation ]_vars

\* C11 witness: the command of a user with a stored turn has been handled
\* and confirmed, and another user's stored turn is still there.
C11_Witness ==
  \E t \in Tasks :
    LET f == task[t] IN
    /\ f.entry = "on_message" /\ f.msg = ForgetText /\ f.pc = "done"
    /\ f.replies = <<ForgottenText>>
    /\ f.pre_len > 0
    /\ conversation[f.user] = <<>>
    /\ \E v \in Users \ {f.user} : conversation[v] # <<>>

\* The forget command of user u, received by task c, has been handled: the
\* log was deleted.
ForgetHandled(c, u) ==
  /\ task[c].entry = "on_message"
  /\ task[c].msg = ForgetText
  /\ task[c].user = u
  /\ task[c].pc \in {"reply_forget", "done"}
  /\ task[c].replies # <<ErrorText>>

\* C20: once u's forget command has been handled, no turn that stems from a
\* message u sent before the command is added to u's log, even when the
\* handling of that earlier message was suspended while the command ran.
C20_NoTurnFromBeforeForget ==
  [][ \A t \in Tasks, c \in Tasks :
        ( /\ ForgetHandled(c, task[t].user)
          /\ task[t].entry = "on_message"
          /\ task[t].arrived_at < task[c].arrived_at )
        => conversation'[task[t].user] = conversation[task[t].user] ]_vars

(***************************************************************************)
(* Claims about broadcast_weather (specifications SpecBroadcast, SpecRace) *)
(***************************************************************************)
\* The scheduler's last broadcast_weather call has returned and the task
\* sleeps until its next target.
CycleDone(f) ==
  /\ f.entry = "scheduler"
  /\ f.pc = "sched_sleep"
  /\ f.cycles > 0
  /\ f.returned

\* The delivery attempts made to user u in the current broadcast_weather call.
AttemptsTo(f, u) == { i \in DOMAIN f.deliveries : f.deliveries[i].user = u }

\* The messages user u received in the current broadcast_weather call.
SentTo(f, u) == { i \in AttemptsTo(f, u) : f.deliveries[i].result = "sent" }

\* C12: in a broadcast cycle whose weather fetch succeeds and during which
\* the subscriber set does not change, a delivery attempt is made to every
\* subscriber exactly once whatever deliveries fail: a failed delivery neither
\* stops the deliveries to the remaining users nor makes the cycle retry (the
\* only attempts repeated, and the only sleeps, are those of failed fetches).
C12_EverySubscriberOnce ==
  \A t \in Tasks :
    LET f == task[t] IN
    (CycleDone(f) /\ f.ret # None) =>
      /\ \A u \in subscribers : Cardinality(AttemptsTo(f, u)) = 1
      /\ \A i \in DOMAIN f.deliveries :
           /\ f.deliveries[i].user \in subscribers
           /\ f.deliveries[i].attempt = f.bw_fetch_failed
      /\ f.bw_attempt = f.bw_fetch_failed
      /\ Len(f.bw_sleeps) = f.bw_fetch_failed

\* C12 witness: with two subscribers, the first delivery failed and the
\* second one was made and succeeded.
C12_Witness ==
  \E t \in Tasks :
    LET f == task[t] IN
    /\ CycleDone(f) /\ f.ret # None
    /\ Cardinality(subscribers) = 2
    /\ Len(f.deliveries) = 2
    /\ f.deliveries[1].result # "sent"
    /\ f.deliveries[2].result = "sent"

\* C13: broadcast_weather makes at most 3 attempts; every attempt whose
\* fetch failed, except the third, is followed by a 60-second sleep; when all
\* 3 fetches fail no subscriber has received a message, broadcast_weather has
\* returned normally 2 * 60 + 3 * (1 + 2) seconds after 06:00, and the task
\* sleeps until 06:00 of the next day.
C13_FetchFailureRetries ==
  \A t \in Tasks :
    LET f == task[t] IN
    f.entry = "scheduler" =>
      /\ f.bw_attempt < 3
      /\ f.bw_fetch_failed <= 3
      /\ \A i \in DOMAIN f.bw_sleeps : f.bw_sleeps[i] = 60
      /\ Len(f.bw_sleeps) <= 2
      /\ f.pc = "bw_sleep" => f.wake_at = now + 60
      /\ (f.pc \in {"fw_call", "fw_sleep"}) => Len(f.bw_sleeps) = f.bw_attempt
      /\ (f.pc = "sched_sleep" /\ f.cycles > 0 /\ f.bw_fetch_failed = 3) =>
           /\ f.returned /\ ~f.raised
           /\ f.deliveries = <<>>
           /\ f.bw_sleeps = <<60, 60>>
           /\ f.faults = 0 => LocalDateTime(now).sod = SixOClock + 2 * 60 + 3 * (1 + 2)
           /\ f.target_time = [day |-> LocalDateTime(now).day + 1, sod |-> SixOClock, us |-> 0]
           /\ f.wake_at - now = DaySeconds - (LocalDateTime(now).sod - SixOClock)

\* C13 witness: all 3 attempts of a cycle failed, with subscribers waiting.
C13_Witness ==
  \E t \in Tasks :
    LET f == task[t] IN
    /\ CycleDone(f)
    /\ f.bw_fetch_failed = 3
    /\ f.bw_sleeps = <<60, 60>>
    /\ subscribers # {}

\* C16: when a subscribe or unsubscribe runs while a broadcast cycle is
\* suspended at a network call of its delivery loop, the cycle completes
\* without an exception and without restarting, and no subscriber receives
\* more than one broadcast message in the cycle.
C16_RacingSubscribersSafe ==
  \A t \in Tasks :
    LET f == task[t] IN
    f.entry = "scheduler" =>
      /\ f.iter_errors = 0
      /\ f.bw_attempt = f.bw_fetch_failed
      /\ \A u \in Users : Cardinality(SentTo(f, u)) <= 1

(***************************************************************************)
(* Claim about schedule_weather_broadcast (specification SpecSchedulerLive) *)
(***************************************************************************)
\* The scheduler task sleeps until a coming 06:00:00 local time.
SleepingUntilSix ==
  \E t \in Tasks :
    LET f == task[t] IN
    /\ f.entry = "scheduler"
    /\ f.pc = "sched_sleep"
    /\ f.target_time.sod = SixOClock /\ f.target_time.us = 0
    /\ f.wake_at > now
    /\ LocalDateTime(f.wake_at) = f.target_time

\* No exception has left the loop, and a pause after a caught exception is 60
\* seconds.
LoopAlive ==
  \A t \in Tasks :
    LET f == task[t] IN
    f.entry = "scheduler" =>
      /\ f.pc # "done" /\ ~f.raised
      /\ f.pc \in {"sched_error_sleep", "bw_sleep"} => f.wake_at - now = 60

\* C14: the scheduler loop never terminates on error: whatever fetches and
\* deliveries fail and whatever exceptions are caught inside an iteration, the
\* task pauses 60 seconds per caught exception and, from every state after
\* start(), is eventually sleeping again until a next 06:00.
C14_SchedulerNeverStops ==
  /\ []LoopAlive
  /\ [](scheduler_started => <>SleepingUntilSix)

\* C14 witness: the task sleeps until the next 06:00 after an exception was
\* caught at line 390 and after a cycle in which a fetch and a delivery failed.
C14_Witness ==
  \E t \in Tasks :
    LET f == task[t] IN
    /\ f.entry = "scheduler" /\ f.pc = "sched_sleep"
    /\ f.wake_at > now
    /\ f.faults > 0
    /\ f.bw_fetch_failed > 0
    /\ \E i \in DOMAIN f.deliveries : f.deliveries[i].result # "sent"

(***************************************************************************)
(* Claim about WeatherScheduler.start (specification SpecStart) *)
(***************************************************************************)
\* The schedule_weather_broadcast tasks that exist.
SchedulerTasks == { t \in Tasks : task[t].entry = "scheduler" }

\* C22: after any number of start() calls at most one
\* schedule_weather_broadcast task exists: the first call creates the task and
\* sets scheduler_started, every later call creates nothing.
C22_SingleSchedulerTask ==
  /\ Cardinality(SchedulerTasks) <= 1
  /\ start_calls = 0 => (~scheduler_started /\ SchedulerTasks = {})
  /\ start_calls > 0 => (scheduler_started /\ Cardinality(SchedulerTasks) = 1)

\* C22 witness: start() has been called three times, the last time while the
\* task was in a broadcast cycle, and there is one scheduler task.
C22_Witness ==
  /\ start_calls = 3
  /\ scheduler_started
  /\ \E t \in Tasks :
       /\ SchedulerTasks = {t}
       /\ task[t].pc \in {"bw_fetch_user", "bw_send"}
====
